---- MODULE Spec2Model ----
(***************************************************************************)
(* The scanner and the expression parser of the interpreter, with the      *)
(* command dispatch of main.go around them.  A source file is a sequence   *)
(* of bytes, each byte a one-character string.  Go's 0-based indices are   *)
(* kept: line[col] of the code is At(line, col) here.  The file named on   *)
(* the command line is taken to be readable (os.Open and ReadBytes do not  *)
(* fail).                                                                  *)
(***************************************************************************)
EXTENDS Integers, Sequences, FiniteSets, TLC

VARIABLES command, src, pc, scanner, parser, stack, ret, reads, stdout, logged,
          exitCode

vars ==
    <<command, src, pc, scanner, parser, stack, ret, reads, stdout, logged,
      exitCode>>

(***************************************************************************)
(* Bytes and their classes.                                                *)
(***************************************************************************)
Digits == {"0", "1", "2", "3", "4", "5", "6", "7", "8", "9"}

Letters ==
    {"a", "b", "c", "d", "e", "f", "g", "h", "i", "j", "k", "l", "m",
     "n", "o", "p", "q", "r", "s", "t", "u", "v", "w", "x", "y", "z",
     "A", "B", "C", "D", "E", "F", "G", "H", "I", "J", "K", "L", "M",
     "N", "O", "P", "Q", "R", "S", "T", "U", "V", "W", "X", "Y", "Z"}

IsDigit(c) == c \in Digits

IsLetter(c) == c \in Letters

At(line, col) == line[col + 1]

RECURSIVE Join(_)
Join(bytes) ==
    IF bytes = <<>> THEN "" ELSE Head(bytes) \o Join(Tail(bytes))

(***************************************************************************)
(* Token model.                                                            *)
(***************************************************************************)
LeftParen == "("
RightParen == ")"
LeftBrace == "{"
RightBrace == "}"
Star == "*"
Comma == ","
Plus == "+"
Dot == "."
Minus == "-"
Semicolon == ";"
Equal == "="
EqualEqual == "=="
Bang == "!"
BangEqual == "!="
Less == "<"
LessEqual == "<="
Greater == ">"
GreaterEqual == ">="
Slash == "/"
String == "STR"
Number == "NUM"
Identifier == "ID"
Keyword == "KEYWORD"
EOF == "EOF"

tokenNames ==
    [t \in {LeftParen, RightParen, LeftBrace, RightBrace, Star, Dot, Comma,
            Plus, Minus, Semicolon, Equal, EqualEqual, Bang, BangEqual, Less,
            LessEqual, Greater, GreaterEqual, Slash, String, Number,
            Identifier, Keyword} |->
        CASE t = LeftParen -> "LEFT_PAREN"
          [] t = RightParen -> "RIGHT_PAREN"
          [] t = LeftBrace -> "LEFT_BRACE"
          [] t = RightBrace -> "RIGHT_BRACE"
          [] t = Star -> "STAR"
          [] t = Dot -> "DOT"
          [] t = Comma -> "COMMA"
          [] t = Plus -> "PLUS"
          [] t = Minus -> "MINUS"
          [] t = Semicolon -> "SEMICOLON"
          [] t = Equal -> "EQUAL"
          [] t = EqualEqual -> "EQUAL_EQUAL"
          [] t = Bang -> "BANG"
          [] t = BangEqual -> "BANG_EQUAL"
          [] t = Less -> "LESS"
          [] t = LessEqual -> "LESS_EQUAL"
          [] t = Greater -> "GREATER"
          [] t = GreaterEqual -> "GREATER_EQUAL"
          [] t = Slash -> "SLASH"
          [] t = String -> "STRING"
          [] t = Number -> "NUMBER"
          [] t = Identifier -> "IDENTIFIER"
          [] t = Keyword -> "KEYWORD"]

keywords ==
    {"and", "class", "else", "false", "for", "fun", "if", "nil", "or",
     "print", "return", "super", "this", "true", "var", "while"}

\* The literal slot of a token (Go's `any`): nil, a string or a float64.
\* A float64 is kept as its integer part and its fraction digits without
\* trailing zeros, which is exact for the short literals modelled here.
NilLiteral == [kind |-> "nil", str |-> "", ip |-> 0, fr |-> <<>>]

StrLiteral(s) == [kind |-> "string", str |-> s, ip |-> 0, fr |-> <<>>]

NumLiteral(f) == [kind |-> "float64", str |-> "", ip |-> f.ip, fr |-> f.fr]

Token(tokenType, line, lexeme, literal) ==
    [tokenType |-> tokenType, line |-> line, lexeme |-> lexeme,
     literal |-> literal]

\* Token{}: Go's zero value.
ZeroToken == Token("", 0, "", NilLiteral)

generateStrToken(line, literal) ==
    Token(String, line, Join(literal),
          StrLiteral(Join(SelectSeq(literal, LAMBDA c : c # "\""))))

generateNumberToken(line, literal, lexeme) ==
    Token(Number, line, lexeme, NumLiteral(literal))

generateIdentifierToken(line, lexeme) ==
    Token(Identifier, line, lexeme, NilLiteral)

generateKeywordToken(line, lexeme) ==
    Token(Keyword, line, lexeme, NilLiteral)

generateToken(tokenType, line) ==
    Token(tokenType, line, tokenType, NilLiteral)

generateEOFToken(line) ==
    Token(EOF, line, "", NilLiteral)

(***************************************************************************)
(* Number conversion: strconv.ParseFloat on the text getNumberLiteral      *)
(* collects (digits with at most one '.'), and strconv.FormatFloat with    *)
(* format 'f' and precision -1.                                            *)
(***************************************************************************)
DigitVal(c) ==
    CASE c = "0" -> 0 [] c = "1" -> 1 [] c = "2" -> 2 [] c = "3" -> 3
      [] c = "4" -> 4 [] c = "5" -> 5 [] c = "6" -> 6 [] c = "7" -> 7
      [] c = "8" -> 8 [] c = "9" -> 9

DigitChar(d) ==
    CASE d = 0 -> "0" [] d = 1 -> "1" [] d = 2 -> "2" [] d = 3 -> "3"
      [] d = 4 -> "4" [] d = 5 -> "5" [] d = 6 -> "6" [] d = 7 -> "7"
      [] d = 8 -> "8" [] d = 9 -> "9"

RECURSIVE DecValue(_)
DecValue(digits) ==
    IF digits = <<>> THEN 0
    ELSE 10 * DecValue(SubSeq(digits, 1, Len(digits) - 1))
         + DigitVal(digits[Len(digits)])

RECURSIVE StripTrailingZeros(_)
StripTrailingZeros(digits) ==
    IF digits # <<>> /\ digits[Len(digits)] = "0"
    THEN StripTrailingZeros(SubSeq(digits, 1, Len(digits) - 1))
    ELSE digits

RECURSIVE IntToStr(_)
IntToStr(n) ==
    IF n < 10 THEN DigitChar(n) ELSE IntToStr(n \div 10) \o DigitChar(n % 10)

Contains(bytes, c) == \E k \in 1..Len(bytes) : bytes[k] = c

IndexOf(bytes, c) == CHOOSE k \in 1..Len(bytes) : bytes[k] = c /\ \A j \in 1..(k - 1) : bytes[j] # c

ParseFloat(raw) ==
    LET intDigits == IF Contains(raw, ".")
                     THEN SubSeq(raw, 1, IndexOf(raw, ".") - 1) ELSE raw
        fracDigits == IF Contains(raw, ".")
                      THEN SubSeq(raw, IndexOf(raw, ".") + 1, Len(raw))
                      ELSE <<>>
    IN  [ip |-> DecValue(intDigits), fr |-> StripTrailingZeros(fracDigits)]

FormatFloat(f) ==
    IF f.fr = <<>> THEN IntToStr(f.ip) ELSE IntToStr(f.ip) \o "." \o Join(f.fr)

formatFloatNumber(f) ==
    IF f.fr = <<>> THEN FormatFloat(f) \o ".0" ELSE FormatFloat(f)

\* strings.ToUpper, on the texts it is applied to (the reserved words).
ToUpper(s) ==
    CASE s = "and" -> "AND" [] s = "class" -> "CLASS" [] s = "else" -> "ELSE"
      [] s = "false" -> "FALSE" [] s = "for" -> "FOR" [] s = "fun" -> "FUN"
      [] s = "if" -> "IF" [] s = "nil" -> "NIL" [] s = "or" -> "OR"
      [] s = "print" -> "PRINT" [] s = "return" -> "RETURN"
      [] s = "super" -> "SUPER" [] s = "this" -> "THIS" [] s = "true" -> "TRUE"
      [] s = "var" -> "VAR" [] s = "while" -> "WHILE"

TokenString(t) ==
    CASE t.tokenType = Number ->
           tokenNames[t.tokenType] \o " " \o t.lexeme \o " "
           \o (IF t.literal.fr = <<>> THEN FormatFloat(t.literal) \o ".0"
               ELSE FormatFloat(t.literal))
      [] t.tokenType = Keyword ->
           ToUpper(t.lexeme) \o " " \o t.lexeme \o " null"
      [] t.tokenType = EOF -> "EOF  null"
      [] OTHER ->
           tokenNames[t.tokenType] \o " " \o t.lexeme \o " "
           \o (IF t.literal.kind = "nil" THEN "null" ELSE t.literal.str)

(***************************************************************************)
(* The scanner's helpers: pure functions of the current line.              *)
(***************************************************************************)
TypeBytes(target) ==
    CASE target = EqualEqual -> <<"=", "=">>
      [] target = BangEqual -> <<"!", "=">>
      [] target = LessEqual -> <<"<", "=">>
      [] target = GreaterEqual -> <<">", "=">>

\* The result pair (Token, error); err = "nil" is Go's nil error.
UnexpectedTokenError == "unexpected token"

UnterminatedStringError == "unterminated string"

getTokenByTypeFirstByte(line, lineNumber, col, target) ==
    IF \/ col >= Len(line)
       \/ At(line, col) # TypeBytes(target)[1]
    THEN [token |-> ZeroToken, err |-> UnexpectedTokenError]
    ELSE [token |-> generateToken(target, lineNumber), err |-> "nil"]

getTokenByType(line, lineNumber, col, target) ==
    IF \E i \in 0..(Len(TypeBytes(target)) - 1) :
          \/ col + i >= Len(line)
          \/ At(line, col + i) # TypeBytes(target)[i + 1]
    THEN [token |-> ZeroToken, err |-> UnexpectedTokenError]
    ELSE [token |-> generateToken(target, lineNumber), err |-> "nil"]

matchNextChar(line, col, target) ==
    IF col + 1 >= Len(line) THEN FALSE ELSE At(line, col + 1) = target

countSkipLineComment(line, col) == Len(line) - col

isSpace(c) == c = " " \/ c = "\t" \/ c = "\n"

isComment(line, col) == At(line, col) = "/" /\ matchNextChar(line, col, "/")

RECURSIVE StringLoop(_, _, _, _)
StringLoop(line, col, i, builder) ==
    IF i >= Len(line) \/ At(line, i) = "\n"
    THEN [str |-> <<>>, count |-> i - col + 1, err |-> UnterminatedStringError]
    ELSE IF At(line, i) = "\""
         THEN [str |-> Append(builder, "\""), count |-> i - col + 1,
               err |-> "nil"]
         ELSE StringLoop(line, col, i + 1, Append(builder, At(line, i)))

getStringLiteralQuoteOnly(line, col) ==
    LET r == StringLoop(line, col, col + 1, <<"\"">>)
    IN  IF r.err # "nil" THEN [r EXCEPT !.count = 1] ELSE r

getStringLiteral(line, col) == StringLoop(line, col, col + 1, <<"\"">>)

RECURSIVE NumberLoop(_, _, _)
NumberLoop(line, i, rawResult) ==
    IF i >= Len(line) THEN [i |-> i, rawResult |-> rawResult]
    ELSE IF IsDigit(At(line, i))
         THEN NumberLoop(line, i + 1, Append(rawResult, At(line, i)))
         ELSE IF At(line, i) = "." /\ ~Contains(rawResult, ".")
              THEN NumberLoop(line, i + 1, Append(rawResult, At(line, i)))
              ELSE [i |-> i, rawResult |-> rawResult]

getNumberLiteral(line, col) ==
    LET r == NumberLoop(line, col, <<>>)
    IN  [number |-> ParseFloat(r.rawResult), lexeme |-> Join(r.rawResult),
         count |-> r.i - col, err |-> "nil"]

RECURSIVE IdentifierLoop(_, _, _)
IdentifierLoop(line, i, builder) ==
    IF i >= Len(line) THEN [i |-> i, builder |-> builder]
    ELSE IF IsDigit(At(line, i)) \/ At(line, i) = "_" \/ IsLetter(At(line, i))
         THEN IdentifierLoop(line, i + 1, Append(builder, At(line, i)))
         ELSE [i |-> i, builder |-> builder]

RECURSIVE IdentifierLoopNoDigits(_, _, _)
IdentifierLoopNoDigits(line, i, builder) ==
    IF i >= Len(line) THEN [i |-> i, builder |-> builder]
    ELSE IF At(line, i) = "_" \/ IsLetter(At(line, i))
         THEN IdentifierLoopNoDigits(line, i + 1, Append(builder, At(line, i)))
         ELSE [i |-> i, builder |-> builder]

getIdentifierNoDigits(line, col) ==
    LET r == IdentifierLoopNoDigits(line, col, <<>>)
    IN  [target |-> Join(r.builder), count |-> r.i - col]

getIdentifier(line, col) ==
    LET r == IdentifierLoop(line, col, <<>>)
    IN  [target |-> Join(r.builder), count |-> r.i - col]

SingleCharTypes ==
    {LeftParen, RightParen, LeftBrace, RightBrace, Star, Dot, Comma, Plus,
     Minus, Semicolon}

TwoCharType(c) ==
    CASE c = "=" -> EqualEqual [] c = "!" -> BangEqual
      [] c = "<" -> LessEqual [] c = ">" -> GreaterEqual

OneOrTwo(line, lineNumber, col) ==
    LET r == getTokenByType(line, lineNumber, col, TwoCharType(At(line, col)))
    IN  IF r.err # "nil"
        THEN [token |-> generateToken(At(line, col), lineNumber), count |-> 1,
              err |-> "nil"]
        ELSE [token |-> r.token, count |-> Len(TypeBytes(r.token.tokenType)),
              err |-> "nil"]

getToken(line, lineNumber, col) ==
    LET c == At(line, col)
    IN  CASE c \in SingleCharTypes ->
               [token |-> generateToken(c, lineNumber), count |-> 1,
                err |-> "nil"]
          [] c \in {"=", "!", "<", ">"} -> OneOrTwo(line, lineNumber, col)
          [] c = "/" ->
               [token |-> generateToken(Slash, lineNumber), count |-> 1,
                err |-> "nil"]
          [] c = "\"" ->
               LET r == getStringLiteral(line, col)
               IN  IF r.err # "nil"
                   THEN [token |-> ZeroToken, count |-> r.count, err |-> r.err]
                   ELSE [token |-> generateStrToken(lineNumber, r.str),
                         count |-> r.count, err |-> "nil"]
          [] IsDigit(c) ->
               LET r == getNumberLiteral(line, col)
               IN  [token |-> generateNumberToken(lineNumber, r.number, r.lexeme),
                    count |-> r.count, err |-> "nil"]
          [] IsLetter(c) \/ c = "_" ->
               LET r == getIdentifier(line, col)
               IN  IF r.target \in keywords
                   THEN [token |-> generateKeywordToken(lineNumber, r.target),
                         count |-> r.count, err |-> "nil"]
                   ELSE [token |-> generateIdentifierToken(lineNumber, r.target),
                         count |-> r.count, err |-> "nil"]
          [] OTHER -> [token |-> ZeroToken, count |-> 1,
                       err |-> UnexpectedTokenError]

(***************************************************************************)
(* scan: the line loop.  The record holds the locals of scan and the       *)
(* reader; pc is the position in the loop ("read": before ReadBytes,       *)
(* "line": in the column loop, "done": returned).  reports are the lines   *)
(* reportError writes to the error channel.  main.go calls a scan that     *)
(* returns (tokens, err) and leaves printing and the exit status to        *)
(* handleCommand; the loop is the one of the source, its end (ScanReturn)  *)
(* is what main.go's use and the EOF token of the parser require.          *)
(***************************************************************************)
NewScanner(bytes) ==
    [reader |-> bytes, line |-> <<>>, err |-> "nil", col |-> 0,
     lineNumber |-> 1, tokens |-> <<>>, hasErrors |-> FALSE,
     reports |-> <<>>, pc |-> "read"]

IdleScanner == [NewScanner(<<>>) EXCEPT !.pc = "idle"]

\* reader.ReadBytes('\n'): the bytes up to and including the first newline,
\* or all the remaining bytes with io.EOF when there is none.
ReadBytes(s) ==
    IF Contains(s.reader, "\n")
    THEN [s EXCEPT !.line = SubSeq(s.reader, 1, IndexOf(s.reader, "\n")),
                   !.reader = SubSeq(s.reader, IndexOf(s.reader, "\n") + 1,
                                     Len(s.reader)),
                   !.err = "nil", !.col = 0, !.pc = "line"]
    ELSE [s EXCEPT !.line = s.reader, !.reader = <<>>, !.err = "EOF",
                   !.col = 0, !.pc = "line"]

InLine(s) == s.pc = "line" /\ s.col < Len(s.line)

AtComment(s) == InLine(s) /\ isComment(s.line, s.col)

AtSpace(s) == InLine(s) /\ ~isComment(s.line, s.col) /\ isSpace(At(s.line, s.col))

AtToken(s) == InLine(s) /\ ~isComment(s.line, s.col) /\ ~isSpace(At(s.line, s.col))

reportError(s, line, error) ==
    [s EXCEPT !.reports = Append(@, [line |-> line, error |-> error])]

SkipComment(s) == [s EXCEPT !.col = @ + countSkipLineComment(s.line, s.col)]

SkipSpace(s) == [s EXCEPT !.col = @ + 1]

ScanTokenDropLine(s) ==
    LET r == getToken(s.line, s.lineNumber, s.col)
    IN  IF r.err = UnexpectedTokenError
        THEN [reportError(s, s.lineNumber,
                          "Unexpected character: " \o At(s.line, s.col))
                EXCEPT !.hasErrors = TRUE, !.col = Len(s.line)]
        ELSE IF r.err = UnterminatedStringError
        THEN [reportError(s, s.lineNumber, "Unterminated string.")
                EXCEPT !.hasErrors = TRUE, !.col = @ + r.count]
        ELSE [s EXCEPT !.tokens = Append(@, r.token), !.col = @ + r.count]

ScanToken(s) ==
    LET r == getToken(s.line, s.lineNumber, s.col)
    IN  IF r.err = UnexpectedTokenError
        THEN [reportError(s, s.lineNumber,
                          "Unexpected character: " \o At(s.line, s.col))
                EXCEPT !.hasErrors = TRUE, !.col = @ + r.count]
        ELSE IF r.err = UnterminatedStringError
        THEN [reportError(s, s.lineNumber, "Unterminated string.")
                EXCEPT !.hasErrors = TRUE, !.col = @ + r.count]
        ELSE [s EXCEPT !.tokens = Append(@, r.token), !.col = @ + r.count]

\* The end of scan: the EOF token is appended and the tokens are returned.
ScanReturn(s) ==
    [s EXCEPT !.tokens = Append(@, generateEOFToken(s.lineNumber)),
              !.pc = "done"]

EndOfLineSameNumber(s) ==
    IF s.err = "EOF" THEN ScanReturn(s) ELSE [s EXCEPT !.pc = "read"]

EndOfLine(s) ==
    IF s.err = "EOF" THEN ScanReturn(s)
    ELSE [s EXCEPT !.lineNumber = @ + 1, !.pc = "read"]

ScanStep(s) ==
    CASE s.pc = "read" -> ReadBytes(s)
      [] AtComment(s) -> SkipComment(s)
      [] AtSpace(s) -> SkipSpace(s)
      [] AtToken(s) -> ScanToken(s)
      [] OTHER -> EndOfLine(s)

RECURSIVE RunScan(_)
RunScan(s) == IF s.pc = "done" THEN s ELSE RunScan(ScanStep(s))

\* scan(reader) -> (tokens, err): err is TokenScanError when hasErrors.
scan(bytes) ==
    LET s == RunScan(NewScanner(bytes))
    IN  [tokens |-> s.tokens,
         err |-> IF s.hasErrors THEN "TokenScanError" ELSE "nil",
         reports |-> s.reports]

tokenizeFile(bytes) ==
    IF Len(bytes) > 0 THEN scan(bytes)
    ELSE [tokens |-> <<generateEOFToken(0)>>, err |-> "nil", reports |-> <<>>]

(***************************************************************************)
(* Expressions and their printer.                                          *)
(***************************************************************************)
NilExpr == [kind |-> "<nil>"]

NewNil == [kind |-> "Nil"]

NewBoolean(value) == [kind |-> "Boolean", value |-> value]

NewNumberLit(value) == [kind |-> "NumberLit", value |-> value]

NewStringLit(value) == [kind |-> "StringLit", value |-> value]

NewGrouping(expr) == [kind |-> "Grouping", value |-> expr]

NewUnary(op, exp) == [kind |-> "Unary", operator |-> op, expression |-> exp]

NewLiteral(token) ==
    CASE token.tokenType = Keyword ->
           CASE token.lexeme = "true" -> [expr |-> NewBoolean(TRUE), err |-> "nil"]
             [] token.lexeme = "false" -> [expr |-> NewBoolean(FALSE), err |-> "nil"]
             [] token.lexeme = "nil" -> [expr |-> NewNil, err |-> "nil"]
             [] OTHER -> [expr |-> NilExpr,
                          err |-> "unsupported keyword type: " \o token.lexeme]
      [] token.tokenType = Number ->
           [expr |-> NewNumberLit([ip |-> token.literal.ip, fr |-> token.literal.fr]),
            err |-> "nil"]
      [] token.tokenType = String ->
           [expr |-> NewStringLit(token.literal.str), err |-> "nil"]
      [] OTHER -> [expr |-> NilExpr,
                   err |-> "unsupported token type: " \o token.lexeme]

RECURSIVE ExprPrint(_)
ExprPrint(expr) ==
    CASE expr.kind = "Boolean" -> IF expr.value THEN "true" ELSE "false"
      [] expr.kind = "Nil" -> "nil"
      [] expr.kind = "NumberLit" -> formatFloatNumber(expr.value)
      [] expr.kind = "StringLit" -> expr.value
      [] expr.kind = "Grouping" -> "(group " \o ExprPrint(expr.value) \o ")"
      [] expr.kind = "Unary" ->
           "(" \o expr.operator.lexeme \o " " \o ExprPrint(expr.expression) \o ")"

printAST(expr) == ExprPrint(expr)

(***************************************************************************)
(* The parser: a cursor over the tokens.  Reading tokens[i] outside        *)
(* 0..len-1 is a run-time panic in Go; each operation says whether it      *)
(* panics.                                                                 *)
(***************************************************************************)
NewParser(tokens) == [tokens |-> tokens, current |-> 0]

InRange(p, i) == i >= 0 /\ i < Len(p.tokens)

currentToken(p) == p.tokens[p.current + 1]

check(p, tokenType) == currentToken(p).tokenType = tokenType

isAtEnd(p) == currentToken(p).tokenType = EOF

previousTokenIsCurrent(p) == p.tokens[p.current + 1]

previousToken(p) == p.tokens[p.current]

advance(p) ==
    LET q == IF ~isAtEnd(p) THEN [p EXCEPT !.current = @ + 1] ELSE p
    IN  [p |-> q, panic |-> ~InRange(q, q.current - 1)]

match(p, tokenType) ==
    IF check(p, tokenType) THEN [p |-> advance(p).p, ok |-> TRUE]
    ELSE [p |-> p, ok |-> FALSE]

\* The token indices an operation evaluates p.tokens[...] at.
ReadsOfCheck(p) == {p.current}

ReadsOfAdvance(p) == {p.current, advance(p).p.current - 1}

ReadsOfMatch(p, tokenType) ==
    IF check(p, tokenType) THEN ReadsOfCheck(p) \cup ReadsOfAdvance(p)
    ELSE ReadsOfCheck(p)

consume(p, tokenType, errorMsg) ==
    LET m == match(p, tokenType)
    IN  [p |-> m.p, err |-> IF ~m.ok THEN errorMsg ELSE "nil"]

ExpectRightParen == "Expect ')' after expression."

\* The pair (Expr, error) a rule returns, or no return yet (a rule is being
\* entered).
Calling == [returned |-> FALSE, expr |-> NilExpr, err |-> "nil"]

Return(expr, err) == [returned |-> TRUE, expr |-> expr, err |-> err]

Frame(rule, op) == [rule |-> rule, op |-> op]

Top(stk) == stk[Len(stk)]

Pop(stk) == SubSeq(stk, 1, Len(stk) - 1)

\* MatchUnary after its recursive call returned r.
UnaryResult(op, r) ==
    IF r.err # "nil" THEN Return(NilExpr, r.err)
    ELSE Return(NewUnary(op, r.expr), "nil")

GroupingResultUnchecked(p, r) ==
    IF r.err # "nil" THEN [ret |-> Return(NilExpr, r.err), p |-> p]
    ELSE LET c == consume(p, RightParen, ExpectRightParen)
         IN  [ret |-> Return(NewGrouping(r.expr), "nil"), p |-> c.p]

\* MatchPrimary after MatchExpr returned r: (result, parser).
GroupingResult(p, r) ==
    IF r.err # "nil" THEN [ret |-> Return(NilExpr, r.err), p |-> p]
    ELSE LET c == consume(p, RightParen, ExpectRightParen)
         IN  IF c.err # "nil" THEN [ret |-> Return(NilExpr, c.err), p |-> c.p]
             ELSE [ret |-> Return(NewGrouping(r.expr), "nil"), p |-> c.p]

(***************************************************************************)
(* Inputs: the source files the commands are run on.  A file is up to      *)
(* MaxChunks pieces of source text, or a text derived from the expression  *)
(* grammar with at most MaxDepth operators and groups around a primary     *)
(* (alone, or with further tokens after it), or a single word.             *)
(***************************************************************************)
MaxChunks == 3

MaxDepth == 2

Chunks ==
    {<<"(">>, <<")">>, <<"!">>, <<"-">>, <<"=">>, <<"<">>, <<">">>, <<".">>,
     <<"/">>, <<"/", "/">>, <<" ">>, <<"\n">>, <<"\"">>, <<"$">>, <<"1">>, <<"a">>,
     <<"t", "r", "u", "e">>}

RECURSIVE Texts(_)
Texts(n) ==
    IF n = 0 THEN {<<>>}
    ELSE LET prev == Texts(n - 1)
         IN  prev \cup {t \o c : t \in prev, c \in Chunks}

\* primary -> NUMBER | STRING | true | false | nil, each with the text the
\* printer is to give for it.
Primaries ==
    {[text |-> <<"3">>, out |-> "3.0"],
     [text |-> <<"1", "0">>, out |-> "10.0"],
     [text |-> <<"1", ".", "5", "0">>, out |-> "1.5"],
     [text |-> <<"\"", "a", " ", "b", "\"">>, out |-> "a b"],
     [text |-> <<"t", "r", "u", "e">>, out |-> "true"],
     [text |-> <<"f", "a", "l", "s", "e">>, out |-> "false"],
     [text |-> <<"n", "i", "l">>, out |-> "nil"]}

\* unary -> ("!" | "-") unary | primary;  primary -> "(" expression ")".
RECURSIVE Derive(_)
Derive(d) ==
    IF d = 0 THEN Primaries
    ELSE LET prev == Derive(d - 1)
         IN  Primaries
             \cup {[text |-> <<"!">> \o e.text, out |-> "(! " \o e.out \o ")"] :
                      e \in prev}
             \cup {[text |-> <<"-">> \o e.text, out |-> "(- " \o e.out \o ")"] :
                      e \in prev}
             \cup {[text |-> <<"(">> \o e.text \o <<")">>,
                    out |-> "(group " \o e.out \o ")"] : e \in prev}

Derived == Derive(MaxDepth)

\* Files of one word: the reserved words, and runs of letters, digits and
\* '_' around them.
Words ==
    {<<"a", "n", "d">>, <<"c", "l", "a", "s", "s">>, <<"e", "l", "s", "e">>,
     <<"f", "a", "l", "s", "e">>, <<"f", "o", "r">>, <<"f", "u", "n">>,
     <<"i", "f">>, <<"n", "i", "l">>, <<"o", "r">>,
     <<"p", "r", "i", "n", "t">>, <<"r", "e", "t", "u", "r", "n">>,
     <<"s", "u", "p", "e", "r">>, <<"t", "h", "i", "s">>,
     <<"t", "r", "u", "e">>, <<"v", "a", "r">>, <<"w", "h", "i", "l", "e">>,
     <<"t", "r", "u", "e", "i", "s", "h">>, <<"n", "i", "l", "_">>,
     <<"_">>, <<"_", "1">>, <<"o", "r", "2">>, <<"T", "r", "u", "e">>,
     <<"f", "o">>, <<"_", "i", "f", " ", "i", "f", "(">>,
     <<"v", "a", "r", ".", "x", "_", "9">>}

\* Tokens that follow a complete expression in a file.
Trailers ==
    {<<" ", "2">>, <<" ", ")">>, <<")">>, <<"(">>, <<" ", "-", "1">>,
     <<"\n", "t", "r", "u", "e">>, <<" ", "o", "r", " ", "x">>}

Sources ==
    Texts(MaxChunks)
    \cup {e.text : e \in Derived}
    \cup Words
    \cup {e.text \o t : e \in Derived, t \in Trailers}

(***************************************************************************)
(* The program: handleCommand(command, file).  exitCode is -1 while the    *)
(* process runs; a Go panic ends it with status 2, log.Fatal with 1.       *)
(***************************************************************************)
Running == -1

Init ==
    /\ command \in {"tokenize", "parse"}
    /\ src \in Sources
    /\ pc = "start"
    /\ scanner = IdleScanner
    /\ parser = NewParser(<<>>)
    /\ stack = <<>>
    /\ ret = Calling
    /\ reads = {}
    /\ stdout = <<>>
    /\ logged = <<>>
    /\ exitCode = Running

parseVars == <<parser, stack, ret, reads>>

outVars == <<stdout, logged, exitCode>>

TokenizeFileEmptyNoToken ==
    /\ pc = "start"
    /\ Len(src) = 0
    /\ scanner' = [IdleScanner EXCEPT !.pc = "done"]
    /\ pc' = "scan"
    /\ UNCHANGED <<command, src, parseVars, outVars>>

\* tokenizeFile: a file with no bytes is not scanned.
TokenizeFileEmpty ==
    /\ pc = "start"
    /\ Len(src) = 0
    /\ scanner' = [IdleScanner EXCEPT !.tokens = <<generateEOFToken(0)>>,
                                      !.pc = "done"]
    /\ pc' = "scan"
    /\ UNCHANGED <<command, src, parseVars, outVars>>

TokenizeFileScan ==
    /\ pc = "start"
    /\ Len(src) > 0
    /\ scanner' = NewScanner(src)
    /\ pc' = "scan"
    /\ UNCHANGED <<command, src, parseVars, outVars>>

ScanAdvance(guard) ==
    /\ pc = "scan"
    /\ guard
    /\ scanner' = ScanStep(scanner)
    /\ UNCHANGED <<command, src, pc, parseVars, outVars>>

ReadLine == ScanAdvance(scanner.pc = "read")

SkipLineComment == ScanAdvance(AtComment(scanner))

SkipWhitespace == ScanAdvance(AtSpace(scanner))

TokenResult(s) == getToken(s.line, s.lineNumber, s.col)

EmitToken == ScanAdvance(AtToken(scanner) /\ TokenResult(scanner).err = "nil")

UnexpectedCharacter ==
    ScanAdvance(AtToken(scanner)
                /\ TokenResult(scanner).err = UnexpectedTokenError)

UnterminatedString ==
    ScanAdvance(AtToken(scanner)
                /\ TokenResult(scanner).err = UnterminatedStringError)

NextLine ==
    ScanAdvance(scanner.pc = "line" /\ ~InLine(scanner) /\ scanner.err # "EOF")

FinishScan ==
    ScanAdvance(scanner.pc = "line" /\ ~InLine(scanner) /\ scanner.err = "EOF")

Scanned == pc = "scan" /\ scanner.pc = "done"

RECURSIVE PrintTokens(_)
PrintTokens(tokens) ==
    IF tokens = <<>> THEN <<>>
    ELSE <<TokenString(Head(tokens))>> \o PrintTokens(Tail(tokens))

HandleTokenizeSilentOnError ==
    /\ Scanned
    /\ command = "tokenize"
    /\ stdout' = IF scanner.hasErrors THEN stdout
                 ELSE stdout \o PrintTokens(scanner.tokens)
    /\ exitCode' = IF scanner.hasErrors THEN 65 ELSE 0
    /\ pc' = "exit"
    /\ UNCHANGED <<command, src, scanner, parseVars, logged>>

HandleTokenize ==
    /\ Scanned
    /\ command = "tokenize"
    /\ stdout' = stdout \o PrintTokens(scanner.tokens)
    /\ exitCode' = IF scanner.hasErrors THEN 65 ELSE 0
    /\ pc' = "exit"
    /\ UNCHANGED <<command, src, scanner, parseVars, logged>>

HandleParseScanError ==
    /\ Scanned
    /\ command = "parse"
    /\ scanner.hasErrors
    /\ exitCode' = 65
    /\ pc' = "exit"
    /\ UNCHANGED <<command, src, scanner, parseVars, stdout, logged>>

HandleParseIgnoringErrors ==
    /\ Scanned
    /\ command = "parse"
    /\ parser' = NewParser(scanner.tokens)
    /\ stack' = <<>>
    /\ ret' = Calling
    /\ reads' = {}
    /\ pc' = "parse"
    /\ UNCHANGED <<command, src, scanner, outVars>>

HandleParse ==
    /\ Scanned
    /\ command = "parse"
    /\ ~scanner.hasErrors
    /\ parser' = NewParser(scanner.tokens)
    /\ stack' = <<>>
    /\ ret' = Calling
    /\ reads' = {}
    /\ pc' = "parse"
    /\ UNCHANGED <<command, src, scanner, outVars>>

AtUnaryOperator == check(parser, Bang) \/ check(parser, Minus)

\* MatchUnary at a '!' or '-': consume it and recurse for the operand.
MatchUnaryOperator ==
    /\ pc = "parse" /\ ~ret.returned
    /\ AtUnaryOperator
    /\ LET m == IF check(parser, Bang) THEN match(parser, Bang)
                ELSE match(parser, Minus)
       IN  /\ parser' = m.p
           /\ stack' = Append(stack, Frame("MatchUnary", previousToken(m.p)))
           /\ reads' = reads \cup ReadsOfMatch(parser, Bang)
                             \cup ReadsOfMatch(parser, Minus)
                             \cup {m.p.current - 1}
    /\ UNCHANGED <<command, src, pc, scanner, ret, outVars>>

\* MatchPrimary at a '(': consume it and call MatchExpr.
MatchPrimaryGroup ==
    /\ pc = "parse" /\ ~ret.returned
    /\ ~AtUnaryOperator
    /\ check(parser, LeftParen)
    /\ parser' = match(parser, LeftParen).p
    /\ stack' = Append(stack, Frame("MatchPrimary", ZeroToken))
    /\ reads' = reads \cup ReadsOfMatch(parser, LeftParen)
    /\ UNCHANGED <<command, src, pc, scanner, ret, outVars>>

\* MatchPrimary at any other token: NewLiteral, then advance.
MatchPrimaryLiteral ==
    /\ pc = "parse" /\ ~ret.returned
    /\ ~AtUnaryOperator
    /\ ~check(parser, LeftParen)
    /\ LET lit == NewLiteral(currentToken(parser))
           a == advance(parser)
       IN  IF a.panic
           THEN /\ pc' = "exit"
                /\ exitCode' = 2
                /\ logged' = Append(logged, "panic: index out of range")
                /\ UNCHANGED <<parser, ret>>
           ELSE /\ parser' = a.p
                /\ ret' = Return(lit.expr, lit.err)
                /\ UNCHANGED <<pc, exitCode, logged>>
    /\ reads' = reads \cup ReadsOfCheck(parser) \cup ReadsOfAdvance(parser)
    /\ UNCHANGED <<command, src, scanner, stack, stdout>>

ReturnToUnary ==
    /\ pc = "parse" /\ ret.returned
    /\ stack # <<>>
    /\ Top(stack).rule = "MatchUnary"
    /\ ret' = UnaryResult(Top(stack).op, ret)
    /\ stack' = Pop(stack)
    /\ UNCHANGED <<command, src, pc, scanner, parser, reads, outVars>>

ReturnToPrimary ==
    /\ pc = "parse" /\ ret.returned
    /\ stack # <<>>
    /\ Top(stack).rule = "MatchPrimary"
    /\ ret' = GroupingResult(parser, ret).ret
    /\ parser' = GroupingResult(parser, ret).p
    /\ reads' = IF ret.err # "nil" THEN reads
                ELSE reads \cup ReadsOfMatch(parser, RightParen)
    /\ stack' = Pop(stack)
    /\ UNCHANGED <<command, src, pc, scanner, outVars>>

\* parse after MatchExpr returned: log.Fatal(err), or print the expression.
ParseFailed ==
    /\ pc = "parse" /\ ret.returned
    /\ stack = <<>>
    /\ ret.err # "nil"
    /\ logged' = Append(logged, ret.err)
    /\ exitCode' = 1
    /\ pc' = "exit"
    /\ UNCHANGED <<command, src, scanner, parseVars, stdout>>

ParsePrintedRequiresEof ==
    /\ pc = "parse" /\ ret.returned
    /\ stack = <<>>
    /\ ret.err = "nil"
    /\ IF isAtEnd(parser)
       THEN /\ stdout' = Append(stdout, printAST(ret.expr))
            /\ exitCode' = 0
            /\ logged' = logged
       ELSE /\ logged' = Append(logged, "Expect end of expression.")
            /\ exitCode' = 1
            /\ stdout' = stdout
    /\ pc' = "exit"
    /\ UNCHANGED <<command, src, scanner, parseVars>>

ParsePrinted ==
    /\ pc = "parse" /\ ret.returned
    /\ stack = <<>>
    /\ ret.err = "nil"
    /\ stdout' = Append(stdout, printAST(ret.expr))
    /\ exitCode' = 0
    /\ pc' = "exit"
    /\ UNCHANGED <<command, src, scanner, parseVars, logged>>

Next ==
    \/ TokenizeFileEmpty
    \/ TokenizeFileScan
    \/ ReadLine
    \/ SkipLineComment
    \/ SkipWhitespace
    \/ EmitToken
    \/ UnexpectedCharacter
    \/ UnterminatedString
    \/ NextLine
    \/ FinishScan
    \/ HandleTokenize
    \/ HandleParseScanError
    \/ HandleParse
    \/ MatchUnaryOperator
    \/ MatchPrimaryGroup
    \/ MatchPrimaryLiteral
    \/ ReturnToUnary
    \/ ReturnToPrimary
    \/ ParseFailed
    \/ ParsePrinted

Spec == Init /\ [][Next]_vars

(***************************************************************************)
(* Properties.                                                             *)
(***************************************************************************)
Last(seq) == seq[Len(seq)]

\* The 0-based offset in src of the byte the scanner is at.
Offset(s) == Len(src) - Len(s.reader) - Len(s.line) + s.col

\* 1 + the number of newlines before the byte at 0-based offset off.
LineOf(bytes, off) == 1 + Cardinality({k \in 1..off : bytes[k] = "\n"})

RECURSIVE DigitRunEnd(_, _)
DigitRunEnd(line, i) ==
    IF i < Len(line) /\ IsDigit(At(line, i)) THEN DigitRunEnd(line, i + 1)
    ELSE i

\* The scanner is at a run of digits followed by a '.' that no digit follows.
AtDigitsThenLoneDot(s) ==
    /\ AtToken(s)
    /\ IsDigit(At(s.line, s.col))
    /\ LET e == DigitRunEnd(s.line, s.col)
       IN  /\ e < Len(s.line)
           /\ At(s.line, e) = "."
           /\ ~(e + 1 < Len(s.line) /\ IsDigit(At(s.line, e + 1)))

\* C1: at a run of digits followed by a '.' that is not followed by a digit,
\* scan emits a NUMBER token whose lexeme is exactly the digit run and goes
\* on at the '.', which then gives a separate DOT token.
C1_LoneDotIsSeparateToken ==
    [][(pc = "scan" /\ AtDigitsThenLoneDot(scanner)) =>
         LET e == DigitRunEnd(scanner.line, scanner.col)
         IN  /\ scanner'.tokens # scanner.tokens
             /\ Last(scanner'.tokens).tokenType = Number
             /\ Last(scanner'.tokens).lexeme
                  = Join(SubSeq(scanner.line, scanner.col + 1, e))
             /\ scanner'.col = e
             /\ TokenResult(scanner').token.tokenType = Dot]_vars

\* C2: whenever the parser returns a syntax error, the parse command ends the
\* process with exit status 65.
C2_SyntaxErrorExits65 ==
    (command = "parse" /\ pc = "exit" /\ ret.returned /\ ret.err # "nil")
        => exitCode = 65

\* C3: when the EOF token is reached where a primary is expected, every token
\* index the parser reads (current and current-1) is within the sequence and
\* the rule returns a syntax error value; the process does not panic.
C3_EofAtPrimaryIsErrorValue ==
    [][(pc = "parse" /\ ~ret.returned /\ isAtEnd(parser)) =>
         /\ InRange(parser, parser.current)
         /\ InRange(advance(parser).p, advance(parser).p.current - 1)
         /\ ret'.returned /\ ret'.err # "nil"
         /\ exitCode' = Running]_vars

\* A grouping whose inner expression was parsed and whose ')' is missing.
MissingParenCase ==
    /\ pc = "parse" /\ ret.returned /\ ret.err = "nil"
    /\ stack # <<>> /\ Top(stack).rule = "MatchPrimary"
    /\ ~check(parser, RightParen)

\* C4: after '(' and a successfully parsed inner expression, a current token
\* other than ')' makes the rule fail with the missing-closing-paren error and
\* build no Grouping; every enclosing rule passes that error on unchanged, and
\* nothing is printed to standard output.
C4_MissingParenAborts ==
    [][/\ MissingParenCase => ret' = Return(NilExpr, ExpectRightParen)
       /\ (pc = "parse" /\ ret.returned /\ ret.err = ExpectRightParen) =>
            /\ ret' = ret
            /\ stdout' = <<>>
            /\ pc' = "exit" => (exitCode' # 0 /\ Last(logged') = ExpectRightParen)]_vars

\* The missing-paren error is on its way up through an enclosing rule.
C4_Witness ==
    /\ pc = "parse" /\ ret.returned /\ ret.err = ExpectRightParen
    /\ stack # <<>>

UnexpectedHere ==
    /\ pc = "scan" /\ AtToken(scanner)
    /\ TokenResult(scanner).err = UnexpectedTokenError

Without(bytes, off) ==
    SubSeq(bytes, 1, off) \o SubSeq(bytes, off + 2, Len(bytes))

WithSpace(bytes, off) == [bytes EXCEPT ![off + 1] = " "]

\* What the step at an unexpected byte does by itself: one report with the
\* byte's line, hadError, one byte further, no token.
UnexpectedStep ==
    /\ scanner'.reports
         = Append(scanner.reports,
                  [line |-> LineOf(src, Offset(scanner)),
                   error |-> "Unexpected character: "
                             \o At(scanner.line, scanner.col)])
    /\ scanner'.hasErrors
    /\ scanner'.col = scanner.col + 1
    /\ scanner'.tokens = scanner.tokens

\* C5, as claimed: a byte that starts no token, whitespace or comment gives
\* exactly one unexpected-character error with that byte's line, sets
\* hadError, advances by 1 and emits no token, and the tokens of the whole
\* scan are those of the source without that byte.
C5_AsIfByteAbsent ==
    [][UnexpectedHere =>
         /\ UnexpectedStep
         /\ RunScan(scanner).tokens
              = scan(Without(src, Offset(scanner))).tokens]_vars

\* C5, amended: the same, and the tokens of the whole scan are those of the
\* source with that byte replaced by a space.
C5_AsIfByteWereSpace ==
    [][UnexpectedHere =>
         /\ UnexpectedStep
         /\ RunScan(scanner).tokens
              = scan(WithSpace(src, Offset(scanner))).tokens]_vars

\* An unexpected byte was reported and tokens stand on both sides of it.
C5_Witness ==
    /\ pc = "scan" /\ scanner.pc = "done"
    /\ Len(src) = 3 /\ src[2] = "$"
    /\ Len(scanner.reports) = 1
    /\ Len(scanner.tokens) = 3

UnterminatedHere ==
    /\ pc = "scan" /\ AtToken(scanner)
    /\ TokenResult(scanner).err = UnterminatedStringError

\* The bytes from the scanner's position to the end of its line, the newline
\* excluded.
RestOfLine(s) ==
    IF Last(s.line) = "\n" THEN Len(s.line) - 1 - s.col ELSE Len(s.line) - s.col

WithoutSpan(bytes, off, n) ==
    SubSeq(bytes, 1, off) \o SubSeq(bytes, off + n + 1, Len(bytes))

\* C6: at a '"' with no closing '"' before the end of its line or of the
\* input, scan reports exactly one unterminated-string error with the line
\* where the string started, sets hadError, emits no token for the span from
\* the quote to the end of the line, and goes on at the next line: the tokens
\* of the whole scan, lines included, are those of the source without the span.
C6_UnterminatedString ==
    [][UnterminatedHere =>
         /\ scanner'.reports
              = Append(scanner.reports,
                       [line |-> LineOf(src, Offset(scanner)),
                        error |-> "Unterminated string."])
         /\ scanner'.hasErrors
         /\ scanner'.tokens = scanner.tokens
         /\ scanner'.col >= Len(scanner.line)
         /\ scanner'.lineNumber = scanner.lineNumber
         /\ RunScan(scanner).tokens
              = scan(WithoutSpan(src, Offset(scanner), RestOfLine(scanner))).tokens]_vars

\* An unterminated string on line 1 and a token scanned on line 2.
C6_Witness ==
    /\ pc = "scan" /\ scanner.pc = "done"
    /\ scanner.reports = <<[line |-> 1, error |-> "Unterminated string."]>>
    /\ Len(scanner.tokens) = 2
    /\ scanner.tokens[1].line = 2

\* C7: every token scan emits has line n + 1, n the number of newlines in the
\* source before the token's first character, whatever ended the lines before
\* (a comment, an unterminated string, an unexpected character).
C7_TokenLine ==
    [][(pc = "scan" /\ AtToken(scanner) /\ TokenResult(scanner).err = "nil") =>
         /\ Len(scanner'.tokens) = Len(scanner.tokens) + 1
         /\ Last(scanner'.tokens).line = LineOf(src, Offset(scanner))]_vars

\* A token on line 2 after a line that holds only a comment.
C7_Witness ==
    /\ pc = "scan" /\ scanner.pc = "done"
    /\ Len(src) >= 2 /\ src[1] = "/" /\ src[2] = "/"
    /\ Len(scanner.tokens) = 2
    /\ scanner.tokens[1].line = 2

AtOperator ==
    /\ pc = "scan" /\ AtToken(scanner)
    /\ At(scanner.line, scanner.col) \in {"=", "!", "<", ">"}

NextIsEqual(s) == s.col + 1 < Len(s.line) /\ At(s.line, s.col + 1) = "="

TokenTypes(tokens) == [i \in 1..Len(tokens) |-> tokens[i].tokenType]

\* A source of k '=' gives k \div 2 EQUAL_EQUAL, then k % 2 EQUAL, then EOF.
RunOfEquals ==
    (scanner.pc = "done" /\ src # <<>> /\ \A k \in 1..Len(src) : src[k] = "=") =>
        LET k == Len(src)
        IN  TokenTypes(scanner.tokens)
              = [i \in 1..((k \div 2) + (k % 2) + 1) |->
                   IF i <= k \div 2 THEN EqualEqual
                   ELSE IF i <= (k \div 2) + (k % 2) THEN Equal ELSE EOF]

\* C9: at '=', '!', '<' or '>': when the next byte of the line is '=', scan
\* emits the two-character token and advances 2, otherwise the one-character
\* token and advances 1; so a run of k '=' gives k \div 2 EQUAL_EQUAL tokens
\* followed by k % 2 EQUAL tokens.
C9_OneOrTwoCharacters ==
    [][/\ AtOperator =>
            LET c == At(scanner.line, scanner.col)
                two == NextIsEqual(scanner)
                kind == IF two THEN c \o "=" ELSE c
            IN  /\ scanner'.tokens
                     = Append(scanner.tokens,
                              Token(kind, scanner.lineNumber, kind, NilLiteral))
                /\ kind \in {Equal, EqualEqual, Bang, BangEqual, Less,
                             LessEqual, Greater, GreaterEqual}
                /\ scanner'.col = scanner.col + (IF two THEN 2 ELSE 1)
       /\ RunOfEquals']_vars

\* "===" has been scanned: EQUAL_EQUAL, EQUAL, EOF.
C9_Witness ==
    /\ scanner.pc = "done" /\ src = <<"=", "=", "=">>
    /\ TokenTypes(scanner.tokens) = <<EqualEqual, Equal, EOF>>

\* C10: for a source text derived from the grammar, the parse command prints
\* the prefix rendering of the derivation: "(<op> <operand>)" for a unary
\* operator, "(group <inner>)" for a group, true, false and nil as themselves,
\* a string as its content, an integral number n as "n.0".
C10_PrintsPrefixRendering ==
    \A e \in Derived :
        (src = e.text /\ command = "parse" /\ pc = "exit") =>
            /\ stdout = <<e.out>>
            /\ exitCode = 0

\* "(-3)" has been parsed and printed.
C10_Witness ==
    /\ src = <<"(", "-", "3", ")">> /\ command = "parse" /\ pc = "exit"
    /\ stdout = <<"(group (- 3.0))">>

\* MatchPrimary is entered: MatchUnary found neither '!' nor '-'.
PrimaryEntered == pc = "parse" /\ ~ret.returned /\ ~AtUnaryOperator

\* The token kinds a primary can start with.
StartsPrimary(token) ==
    \/ token.tokenType \in {LeftParen, Number, String}
    \/ token.tokenType = Keyword /\ token.lexeme \in {"true", "false", "nil"}

UnsupportedPrimaryErrors(token) ==
    {"unsupported token type: " \o token.lexeme,
     "unsupported keyword type: " \o token.lexeme}

\* C11: when primary is entered at a token that is neither '(' nor NUMBER,
\* STRING, true, false or nil, the rule returns an unsupported-primary error
\* and no expression (the process goes on to report it), and every enclosing
\* rule hands that error on unchanged, again with no expression.
C11_UnsupportedPrimaryFails ==
    [][/\ (PrimaryEntered /\ ~StartsPrimary(currentToken(parser))) =>
            /\ ret'.returned /\ ret'.expr = NilExpr
            /\ ret'.err \in UnsupportedPrimaryErrors(currentToken(parser))
            /\ exitCode' = Running
       /\ (pc = "parse" /\ ret.returned /\ ret.err # "nil" /\ stack # <<>>) =>
            ret' = Return(NilExpr, ret.err)]_vars

IsWordByte(c) == IsLetter(c) \/ IsDigit(c) \/ c = "_"

\* The end of the longest run of letters, digits and '_' from column i.
RECURSIVE WordRunEnd(_, _)
WordRunEnd(line, i) ==
    IF i < Len(line) /\ IsWordByte(At(line, i)) THEN WordRunEnd(line, i + 1)
    ELSE i

ReservedWords ==
    {"and", "class", "else", "false", "for", "fun", "if", "nil", "or",
     "print", "return", "super", "this", "true", "var", "while"}

AtWordStart(s) ==
    AtToken(s) /\ (IsLetter(At(s.line, s.col)) \/ At(s.line, s.col) = "_")

\* C12: at a letter or '_' the scan step consumes the longest run of
\* letters, digits and '_' and appends exactly one token for it, reporting
\* no error: a keyword token when the whole run is one of the 16 reserved
\* words and an IDENTIFIER otherwise, with the run as lexeme and no literal.
C12_LongestWordIsOneToken ==
    [][(pc = "scan" /\ AtWordStart(scanner)) =>
         LET e == WordRunEnd(scanner.line, scanner.col)
             text == Join(SubSeq(scanner.line, scanner.col + 1, e))
             kind == IF text \in ReservedWords THEN Keyword ELSE Identifier
         IN  /\ scanner'.tokens =
                    Append(scanner.tokens,
                           Token(kind, scanner.lineNumber, text, NilLiteral))
             /\ scanner'.col = e
             /\ e > scanner.col
             /\ scanner'.reports = scanner.reports
             /\ scanner'.hasErrors = scanner.hasErrors]_vars

\* "trueish", "_1" and "var.x_9" have been scanned: a reserved word that is
\* a proper prefix of the run gives one IDENTIFIER, digits belong to the run.
C12_Witness ==
    /\ pc = "exit" /\ command = "tokenize"
    /\ \/ /\ src = <<"t", "r", "u", "e", "i", "s", "h">>
          /\ stdout = <<"IDENTIFIER trueish null", "EOF  null">>
       \/ /\ src = <<"_", "1">>
          /\ stdout = <<"IDENTIFIER _1 null", "EOF  null">>
       \/ /\ src = <<"v", "a", "r", ".", "x", "_", "9">>
          /\ stdout = <<"VAR var null", "DOT . null", "IDENTIFIER x_9 null",
                        "EOF  null">>

\* C13: the tokenize command exits only once the whole input has been
\* scanned; at exit every token of the input, those after an error included,
\* has been printed in order with the EOF line last, and the status is 65
\* exactly when at least one scan error was reported (0 otherwise).
C13_TokenizeExit65IffScanError ==
    /\ (command = "tokenize" /\ exitCode # Running) =>
          /\ pc = "exit"
          /\ scanner.pc = "done" /\ scanner.reader = <<>>
          /\ scanner.tokens = tokenizeFile(src).tokens
          /\ scanner.reports = tokenizeFile(src).reports
          /\ Len(stdout) = Len(scanner.tokens)
          /\ \A i \in 1..Len(stdout) : stdout[i] = TokenString(scanner.tokens[i])
          /\ Last(stdout) = "EOF  null"
          /\ exitCode \in {0, 65}
          /\ exitCode = 65 <=> scanner.reports # <<>>
    /\ (command = "tokenize" /\ exitCode = Running) => stdout = <<>>

\* An unexpected character before a number: the number and the EOF line are
\* printed and the status is 65.
C13_Witness ==
    /\ command = "tokenize" /\ pc = "exit"
    /\ src = <<"$", "1">>
    /\ Len(scanner.reports) = 1
    /\ stdout = <<"NUMBER 1 1.0", "EOF  null">>
    /\ exitCode = 65

\* A measure of the parse still to do: the tokens not yet consumed (twice
\* over), the rules still to return and the rule call still to be made.
ParseVariant ==
    (Len(parser.tokens) - parser.current) + (Len(parser.tokens) - parser.current)
    + Len(stack) + (IF ret.returned THEN 0 ELSE 1)

\* The cursor never decreases and stays within the sequence, advance does
\* not move at EOF, each pending rule call has consumed a token of its own,
\* and every step that stays in the parse brings it closer to its end.
ParseProgress ==
    /\ parser'.current >= parser.current
    /\ parser'.current < Len(parser.tokens)
    /\ isAtEnd(parser) => advance(parser).p.current = parser.current
    /\ Len(stack') <= parser'.current
    /\ Len(stack') <= Len(parser.tokens)
    /\ pc' = "parse" => ParseVariant' < ParseVariant

\* parseExpression has returned to parse, with an expression or an error.
ParseReturned ==
    /\ ret.returned /\ stack = <<>>
    /\ (ret.err = "nil") # (ret.expr = NilExpr)

\* C14: during a parse the cursor never decreases, advance is a no-op at
\* EOF, the recursion depth never exceeds the number of tokens consumed, and
\* the parse ends only by parseExpression returning an expression or an
\* error, after finitely many steps.
C14_ParseTerminatesWithinTokens ==
    [][pc = "parse" =>
         /\ ParseProgress
         /\ pc' # "parse" => ParseReturned]_vars

\* C15: in the parse command the parser runs only after the scan has
\* finished without error; once the scan has reported an error the parser is
\* never constructed or called, nothing is printed, and the process exits
\* with status 65.
C15_NoParseAfterScanError ==
    /\ pc = "parse" =>
          /\ command = "parse"
          /\ scanner.pc = "done" /\ scanner.reader = <<>>
          /\ scanner.reports = <<>> /\ ~scanner.hasErrors
          /\ parser.tokens = tokenizeFile(src).tokens
    /\ (command = "parse" /\ scanner.reports # <<>>) =>
          /\ pc \in {"scan", "exit"}
          /\ parser = NewParser(<<>>) /\ ret = Calling /\ stack = <<>>
          /\ reads = {}
          /\ stdout = <<>>
          /\ exitCode \in {Running, 65}
          /\ pc = "exit" <=> exitCode = 65
          /\ pc = "exit" => scanner.pc = "done"

\* "1$": the valid tokens alone are the expression 1, yet nothing is parsed
\* or printed and the status is 65.
C15_Witness ==
    /\ command = "parse" /\ pc = "exit"
    /\ src = <<"1", "$">>
    /\ Len(scanner.tokens) = 2 /\ scanner.tokens[1].tokenType = Number
    /\ scanner.tokens[2].tokenType = EOF
    /\ Len(scanner.reports) = 1
    /\ parser = NewParser(<<>>)
    /\ stdout = <<>>
    /\ exitCode = 65

\* The parse command has ended on a file made of one complete expression e
\* followed by the tokens of t.
ParsedWithTrailer(e, t) ==
    src = e.text \o t /\ command = "parse" /\ pc = "exit"

\* C16: parse does not require EOF after the top-level expression.  On a
\* file whose tokens start with one complete expression and go on with other
\* tokens, parse exits with status 0 having printed the rendering of that
\* expression only; the cursor rests on the first token after it, which is
\* not EOF, and the only token indices ever read are those of the
\* expression.  Whenever parse succeeds, no token at or after the cursor has
\* been read.
C16_TrailingTokensIgnored ==
    /\ (command = "parse" /\ pc = "exit" /\ exitCode = 0) =>
          /\ reads = 0..(parser.current - 1)
          /\ stdout = <<printAST(ret.expr)>>
    /\ (command = "parse" /\ pc = "exit") =>
          \A e \in Derived, t \in Trailers :
              ParsedWithTrailer(e, t) =>
                  /\ exitCode = 0
                  /\ stdout = <<e.out>>
                  /\ logged = <<>>
                  /\ parser.current = Len(tokenizeFile(e.text).tokens) - 1
                  /\ Len(parser.tokens) > parser.current + 1
                  /\ ~isAtEnd(parser)
                  /\ reads = 0..(parser.current - 1)

\* "true )": true is printed and the ')' after it is never read.
C16_Witness ==
    /\ command = "parse" /\ pc = "exit"
    /\ src = <<"t", "r", "u", "e", " ", ")">>
    /\ Len(parser.tokens) = 3
    /\ parser.tokens[2].tokenType = RightParen
    /\ parser.current = 1
    /\ reads = {0}
    /\ stdout = <<"true">>
    /\ exitCode = 0

====
